---- MODULE Spec2Model ----
(***************************************************************************)
(* sdm - the chunked-transfer engine of src/main.go.                       *)
(*                                                                         *)
(* One run of downloadFile(url, output, workersOverride): the HEAD probe,  *)
(* the test range request (verifyPartialSupport), the ranged path (create  *)
(* and pre-size the file, one goroutine per chunk running the retry loop   *)
(* around downloadPart, wg.Wait) and the single-stream fallback            *)
(* (singleDownload).                                                       *)
(*                                                                         *)
(* The server is the environment.  It serves the byte sequence X; the      *)
(* answer to every request (transport error, status, headers, where a body *)
(* stream breaks) is chosen nondeterministically.  A 206 body carries      *)
(* exactly the bytes of X in the requested range (no byte for a range      *)
(* whose end is below its start); a 200 body of the unranged GET carries X.*)
(***************************************************************************)
EXTENDS Integers, Sequences, FiniteSets, TLC

(* ----------------------------- bounds ---------------------------------- *)
\* longest source content
MaxSize == 3
\* largest --worker value
MaxWorkers == 2
\* most bytes one Read of a response body returns (32*1024 in the code)
BufSize == 2
\* the planner is run on the sizes within Radius bytes of each threshold
Radius == 20

(* ------------------------ program constants ---------------------------- *)
maxRetries == 3
StatusOK == 200
StatusPartialContent == 206
MB == 1024 * 1024
GB == 1024 * MB

(* --------------------------- value sets -------------------------------- *)
\* 0 is the byte of a pre-sized (truncated) file.  The code copies bytes
\* without looking at them, so the source of length n is taken with n distinct
\* non-zero bytes: every misplaced, missing or doubled byte shows in the file.
ZeroByte == 0
\* what an older file at the output path holds
OldContent == <<99>>
Contents == {[k \in 1..n |-> k] : n \in 0..MaxSize}
\* the statuses a server answers with: 200, 206 and two others (416, 404)
Statuses == {StatusOK, StatusPartialContent, 416, 404}
\* Content-Length of the HEAD response: absent, not a number, or the length
LengthHeaders == {"missing", "invalid", "valid"}
AcceptRangesHeaders == {"bytes", "none", ""}
\* Content-Range of a 206 answer (to the test request bytes=0-1 or to a
\* chunk request): the range asked for with the total, another total, none
ContentRanges == {"correct", "wrong", "missing"}
NoResp == [err |-> FALSE, status |-> 0, contentLength |-> "", acceptRanges |-> "",
           contentRange |-> ""]

VARIABLES
    X,                \* the resource the server serves
    workersOverride,  \* the --worker flag
    pc,               \* where downloadFile is
    headResp,         \* the response to http.Head
    testResp,         \* the response to the test request of verifyPartialSupport
    size,             \* size (strconv.Atoi of Content-Length)
    workers,          \* resolved worker count
    launched,         \* loop variable i of the launch loop
    tasks,            \* the chunk goroutines: index -> start, end, retries, ...,
                      \* resp (the response the running attempt accepted)
    wg,               \* sync.WaitGroup counter
    fileExists,       \* the output path names a file
    file,             \* the bytes of the output file
    creates,          \* calls of os.Create on the output path
    gets,             \* unranged GETs issued (singleDownload)
    fpos,             \* bytes io.Copy has copied in singleDownload
    bar,              \* byte count added to the progress bar
    result,           \* what downloadFile returned: "none" (running), "nil", "err"
    err,              \* the step whose error downloadFile returns, "none" without one
    written,          \* the writes of the chunk goroutines: <<offset, chunk index>>
    server            \* "strict": every 206 carries the Content-Range asked for;
                      \* "loose": its total may differ or the header be absent

vars == <<X, workersOverride, pc, headResp, testResp, size, workers, launched,
          tasks, wg, fileExists, file, creates, gets, fpos, bar, result, err,
          written, server>>

(* ------------------------------ helpers -------------------------------- *)
Min(a, b) == IF a < b THEN a ELSE b
Max(a, b) == IF a > b THEN a ELSE b

\* file.Truncate(n) on a freshly created file: n zero bytes
Zeros(n) == [k \in 1..n |-> ZeroByte]

\* bytes [from, from+n-1] (0-based offsets) of the source
SourceBytes(from, n) == [k \in 1..n |-> X[from + k]]

\* a positioned write of data at 0-based offset off (file.Seek + file.Write):
\* overwrites in place, extends the file when it ends beyond its length
WriteAt(f, off, data) ==
    [k \in 1..Max(Len(f), off + Len(data)) |->
        IF k > off /\ k <= off + Len(data) THEN data[k - off]
        ELSE IF k <= Len(f) THEN f[k]
        ELSE ZeroByte]

(* --------------------------- the probe --------------------------------- *)
\* the HEAD checks without the Accept-Ranges test: every server with a
\* length goes on to the test request
HeadOutcomeNoAcceptRanges(r) ==
    IF r.err THEN "fail"
    ELSE IF r.status # StatusOK THEN "fail"
    ELSE IF r.contentLength = "missing" THEN "fail"
    ELSE IF r.contentLength = "invalid" THEN "fail"
    ELSE "verify"

\* the HEAD checks with Accept-Ranges looked at before Content-Length
HeadOutcomeRangesFirst(r) ==
    IF r.err THEN "fail"
    ELSE IF r.status # StatusOK THEN "fail"
    ELSE IF r.acceptRanges # "bytes" THEN "fallback"
    ELSE IF r.contentLength = "missing" THEN "fail"
    ELSE IF r.contentLength = "invalid" THEN "fail"
    ELSE "verify"

\* downloadFile, the HEAD request and its checks, in the code's order:
\* transport error, status, Content-Length present, Content-Length a number,
\* Accept-Ranges.  "fail" returns an error, "fallback" calls singleDownload,
\* "verify" goes on to verifyPartialSupport.
HeadOutcome(r) ==
    IF r.err THEN "fail"
    ELSE IF r.status # StatusOK THEN "fail"
    ELSE IF r.contentLength = "missing" THEN "fail"
    ELSE IF r.contentLength = "invalid" THEN "fail"
    ELSE IF r.acceptRanges # "bytes" THEN "fallback"
    ELSE "verify"

\* the test request accepted on any success status
verifyPartialSupportAnySuccess(r) == r.status \in {StatusOK, StatusPartialContent}

\* verifyPartialSupport's boolean: the status of the answer to bytes=0-1
verifyPartialSupport(r) == r.status = StatusPartialContent

\* downloadFile after the HEAD checks: the test request decides the path
VerifyOutcome(r) ==
    IF r.err THEN "fail"
    ELSE IF ~verifyPartialSupport(r) THEN "fallback"
    ELSE "ranged"

HeadResponses ==
    {[NoResp EXCEPT !.err = TRUE]} \cup
    {[NoResp EXCEPT !.status = s, !.contentLength = cl, !.acceptRanges = ar] :
        s \in Statuses, cl \in LengthHeaders, ar \in AcceptRangesHeaders}

TestResponses ==
    {[NoResp EXCEPT !.err = TRUE]} \cup
    {[NoResp EXCEPT !.status = s, !.contentRange = cr] :
        s \in Statuses, cr \in ContentRanges}

(* ------------------------ the chunk planner ---------------------------- *)
\* the thresholds compared with <= instead of <
calculateWorkersInclusive(sz) ==
    IF sz <= 5 * MB THEN 1
    ELSE IF sz <= 100 * MB THEN 4
    ELSE IF sz <= 1 * GB THEN 8
    ELSE 16

calculateWorkers(sz) ==
    IF sz < 5 * MB THEN 1
    ELSE IF sz < 100 * MB THEN 4
    ELSE IF sz < 1 * GB THEN 8
    ELSE 16

\* the override taken only when it asks for more workers than the heuristic
ResolveWorkersLarger(sz, override) ==
    IF override > calculateWorkers(sz) THEN override ELSE calculateWorkers(sz)

\* workers := calculateWorkers(size); if workersOverride > 0 { workers = workersOverride }
ResolveWorkers(sz, override) ==
    IF override > 0 THEN override ELSE calculateWorkers(sz)

\* the part size rounded up
PartSizeCeil(sz, w) == (sz + w - 1) \div w

\* partSize := size / workers
PartSize(sz, w) == sz \div w

\* start := i * partSize
ChunkStart(i, partSize) == i * partSize

\* the end of a chunk without the last chunk taking the remainder
ChunkEndNoRemainder(i, partSize, sz, w) == i * partSize + partSize - 1

\* end := start + partSize - 1; if i == workers-1 { end = size - 1 }
ChunkEnd(i, partSize, sz, w) ==
    IF i = w - 1 THEN sz - 1 ELSE ChunkStart(i, partSize) + partSize - 1

\* number of bytes of the range [start, end]; 0 when end < start
RangeLen(t) == Max(0, t.end - t.start + 1)

(* ------------------------ the retry loop ------------------------------- *)
\* the give-up test one retry late
RetriesExhaustedLate(retries) == retries > maxRetries + 1

\* retries > maxRetries, tested after retries++
RetriesExhausted(retries) == retries > maxRetries

\* the retry loop leaving on the first error as if the part were done
TaskFailedBreak(ts, i) ==
    [ts EXCEPT ![i] = [@ EXCEPT !.retries = @ + 1, !.pos = 0, !.st = "ok",
                                !.resp = NoResp]]

\* the retry loop with an exhausted chunk stopping the goroutines still running
TaskFailedCancelSiblings(ts, i) ==
    [j \in DOMAIN ts |->
        IF j = i
        THEN [ts[j] EXCEPT !.retries = @ + 1,
                           !.pos = 0,
                           !.resp = NoResp,
                           !.st = IF ts[i].retries + 1 > maxRetries
                                  THEN "exhausted" ELSE "ready"]
        ELSE IF ts[i].retries + 1 > maxRetries /\ ts[j].st \in {"ready", "reading"}
        THEN [ts[j] EXCEPT !.st = "exhausted"]
        ELSE ts[j]]

\* the retry asking only for the bytes the failed attempt had not written
TaskFailedResume(ts, i) ==
    [ts EXCEPT ![i] =
        [@ EXCEPT !.retries = @ + 1,
                  !.start = @ + ts[i].pos,
                  !.pos = 0,
                  !.resp = NoResp,
                  !.st = IF RetriesExhausted(ts[i].retries + 1)
                         THEN "exhausted" ELSE "ready"]]

\* downloadPart returned an error in goroutine i: retries++, then give up or
\* sleep and call downloadPart again with the same start and end; the
\* response of the failed call is gone with the call
TaskFailed(ts, i) ==
    [ts EXCEPT ![i] =
        [@ EXCEPT !.retries = @ + 1,
                  !.pos = 0,
                  !.resp = NoResp,
                  !.st = IF RetriesExhausted(ts[i].retries + 1)
                         THEN "exhausted" ELSE "ready"]]

\* downloadPart returned nil in goroutine i: break
TaskSucceeded(ts, i) == [ts EXCEPT ![i] = [@ EXCEPT !.st = "ok"]]

\* goroutines that have returned (their deferred wg.Done has run)
Finished(ts) == {j \in DOMAIN ts : ts[j].st \in {"ok", "exhausted"}}

\* the WaitGroup counter after the goroutines of ts that newly returned
WgAfter(old, new) == wg - (Cardinality(Finished(new)) - Cardinality(Finished(old)))

(* ------------------------- downloadPart -------------------------------- *)
\* downloadPart without the status check
PartRequestFailsNoStatusCheck(r, fileErr) == r.err \/ fileErr

\* downloadPart accepting a 200 answer as well
PartRequestFailsAnySuccess(r, fileErr) ==
    r.err \/ r.status \notin {StatusOK, StatusPartialContent} \/ fileErr

\* downloadPart up to the read loop: client.Do error, status other than 206,
\* OpenFile or Seek error
PartRequestFails(r, fileErr) ==
    r.err \/ r.status # StatusPartialContent \/ fileErr

\* the Seek landing one byte beyond start
WriteOffsetOneBeyond(start, pos) == start + pos + 1

\* the write offset without the Seek to start
WriteOffsetNoSeek(start, pos) == pos

\* file.Seek(start, io.SeekStart) followed by sequential writes: the offset of
\* the next write of an attempt that has written pos bytes
WriteOffset(start, pos) == start + pos

PartResponses ==
    {[NoResp EXCEPT !.err = TRUE]} \cup {[NoResp EXCEPT !.status = s] : s \in Statuses}

\* the answers to a chunk request (client.Do, line 196): a transport error, a
\* status other than 206, or a 206 with its Content-Range: the one asked for
\* from a "strict" server, any of ContentRanges from a "loose" one
ChunkResponses(sv) ==
    {[NoResp EXCEPT !.err = TRUE]}
        \cup {[NoResp EXCEPT !.status = s] : s \in Statuses \ {StatusPartialContent}}
        \cup {[NoResp EXCEPT !.status = StatusPartialContent, !.contentRange = c] :
                    c \in IF sv = "strict" THEN {"correct"} ELSE ContentRanges}

(* ------------------------------ Init ----------------------------------- *)
Init ==
    /\ X \in Contents
    /\ workersOverride \in 0..MaxWorkers
    /\ pc = "Idle"
    /\ headResp = NoResp
    /\ testResp = NoResp
    /\ size = 0
    /\ workers = 0
    /\ launched = 0
    /\ tasks = <<>>
    /\ wg = 0
    /\ fileExists \in BOOLEAN
    /\ file = IF fileExists THEN OldContent ELSE <<>>
    /\ creates = 0
    /\ gets = 0
    /\ fpos = 0
    /\ bar = 0
    /\ result = "none"
    /\ err = "none"
    /\ written = {}
    /\ server = "strict"

(* ----------------------------- actions --------------------------------- *)
\* downloadFile, lines 88-111: http.Head and the checks on its response
HeadProbe ==
    /\ pc = "Idle"
    /\ \E r \in HeadResponses :
        /\ headResp' = r
        /\ size' = IF HeadOutcome(r) = "fail" THEN 0 ELSE Len(X)
        /\ pc' = CASE HeadOutcome(r) = "fail" -> "Done"
                   [] HeadOutcome(r) = "fallback" -> "Fallback"
                   [] OTHER -> "Verify"
        /\ result' = IF HeadOutcome(r) = "fail" THEN "err" ELSE "none"
        /\ err' = IF HeadOutcome(r) = "fail" THEN "head" ELSE "none"
    /\ UNCHANGED <<X, workersOverride, testResp, workers, launched, tasks, wg,
                   fileExists, file, creates, gets, fpos, bar, written, server>>

\* downloadFile, lines 113-128: the test request bytes=0-1 and the worker count
Verify ==
    /\ pc = "Verify"
    /\ \E r \in TestResponses :
        /\ testResp' = r
        /\ pc' = CASE VerifyOutcome(r) = "fail" -> "Done"
                   [] VerifyOutcome(r) = "fallback" -> "Fallback"
                   [] OTHER -> "Create"
        /\ result' = IF VerifyOutcome(r) = "fail" THEN "err" ELSE "none"
        /\ err' = IF VerifyOutcome(r) = "fail" THEN "verify" ELSE "none"
        /\ workers' = IF VerifyOutcome(r) = "ranged"
                      THEN ResolveWorkers(size, workersOverride) ELSE 0
    /\ UNCHANGED <<X, workersOverride, headResp, size, launched, tasks, wg,
                   fileExists, file, creates, gets, fpos, bar, written, server>>

\* the error of file.Truncate not looked at
CreateOutcomeNoTruncateCheck(createErr, truncErr) ==
    IF createErr THEN "create" ELSE "none"

\* downloadFile, lines 130-139: what follows os.Create and file.Truncate:
\* "create" and "truncate" return that error, "none" goes on to the launch loop
CreateOutcome(createErr, truncErr) ==
    IF createErr THEN "create"
    ELSE IF truncErr THEN "truncate"
    ELSE "none"

\* the counter set one short of the goroutines launched
WgAddOneShort(w) == w - 1

\* the counter set one above the goroutines launched
WgAddOneTooMany(w) == w + 1

\* wg.Add(workers), line 155: the counter the join waits on
WgAdd(w) == w

\* downloadFile, lines 130-155: os.Create, file.Truncate, the progress bar,
\* wg.Add(workers)
CreateFile ==
    /\ pc = "Create"
    /\ creates' = creates + 1
    /\ \E createErr \in BOOLEAN, truncErr \in BOOLEAN :
        /\ IF createErr
           THEN UNCHANGED <<fileExists, file>>
           ELSE /\ fileExists' = TRUE
                /\ file' = IF truncErr THEN <<>> ELSE Zeros(size)
        /\ IF CreateOutcome(createErr, truncErr) # "none"
           THEN /\ pc' = "Done" /\ result' = "err"
                /\ err' = CreateOutcome(createErr, truncErr)
                /\ UNCHANGED <<wg, bar>>
           ELSE /\ pc' = "Launch" /\ result' = "none" /\ err' = "none"
                /\ wg' = WgAdd(workers) /\ bar' = 0
    /\ UNCHANGED <<X, workersOverride, headResp, testResp, size, workers, launched,
                   tasks, gets, fpos, written, server>>

\* downloadFile, lines 157-181: one iteration of the launch loop
LaunchTask ==
    /\ pc = "Launch"
    /\ launched < workers
    /\ tasks' = [j \in 0..launched |->
                    IF j < launched THEN tasks[j]
                    ELSE [start |-> ChunkStart(launched, PartSize(size, workers)),
                          end |-> ChunkEnd(launched, PartSize(size, workers), size, workers),
                          retries |-> 0, attempts |-> 0, pos |-> 0, st |-> "ready",
                          resp |-> NoResp]]
    /\ launched' = launched + 1
    /\ pc' = IF launched + 1 = workers THEN "Wait" ELSE "Launch"
    /\ UNCHANGED <<X, workersOverride, headResp, testResp, size, workers, wg,
                   fileExists, file, creates, gets, fpos, bar, result, err,
                   written, server>>

\* goroutine i calls downloadPart and client.Do answers r; fileErr: OpenFile
\* or Seek fails (lines 168 and 188-215)
DownloadPartAnswered(i, r, fileErr) ==
    /\ i \in DOMAIN tasks
    /\ tasks[i].st = "ready"
    /\ LET called == [tasks EXCEPT ![i] = [@ EXCEPT !.attempts = @ + 1]]
           after == IF PartRequestFails(r, fileErr)
                    THEN TaskFailed(called, i)
                    ELSE [called EXCEPT ![i] = [@ EXCEPT !.st = "reading", !.pos = 0,
                                                         !.resp = r]]
       IN /\ tasks' = after
          /\ wg' = WgAfter(tasks, after)
    /\ UNCHANGED <<X, workersOverride, pc, headResp, testResp, size, workers, launched,
                   fileExists, file, creates, gets, fpos, bar, result, err,
                   written, server>>

\* goroutine i calls downloadPart: the answer is the server's choice
DownloadPartRequest(i) ==
    \E r \in ChunkResponses(server), fileErr \in BOOLEAN :
        DownloadPartAnswered(i, r, fileErr)

\* goroutine i, one turn of downloadPart's read loop, lines 218-233: Read
\* returns n bytes and rerr; the n bytes are written (w < n: the write failed
\* after w bytes) and added to the bar; then rerr is looked at
DownloadPartRead(i) ==
    /\ i \in DOMAIN tasks
    /\ tasks[i].st = "reading"
    /\ LET t == tasks[i]
           rem == RangeLen(t) - t.pos
       IN \E n \in 0..Min(BufSize, rem), rerr \in {"nil", "EOF", "err"} :
          \E w \in 0..n :
            /\ rerr = "EOF" => n = rem
            /\ rerr = "nil" => n > 0
            /\ file' = IF w > 0
                       THEN WriteAt(file, WriteOffset(t.start, t.pos),
                                    SourceBytes(t.start + t.pos, w))
                       ELSE file
            /\ written' = written \cup
                    {<<WriteOffset(t.start, t.pos) + k, i>> : k \in 0..(w - 1)}
            /\ bar' = IF w = n THEN bar + n ELSE bar
            /\ LET moved == [tasks EXCEPT ![i] = [@ EXCEPT !.pos = @ + w]]
                   after == IF w < n \/ rerr = "err" THEN TaskFailed(moved, i)
                            ELSE IF rerr = "EOF" THEN TaskSucceeded(moved, i)
                            ELSE moved
               IN /\ tasks' = after
                  /\ wg' = WgAfter(tasks, after)
    /\ UNCHANGED <<X, workersOverride, pc, headResp, testResp, size, workers, launched,
                   fileExists, creates, gets, fpos, result, err, server>>

\* the join followed by the single-stream download when a chunk is exhausted
WaitThenFallback ==
    /\ pc = "Wait"
    /\ wg = 0
    /\ IF \E i \in DOMAIN tasks : tasks[i].st = "exhausted"
       THEN pc' = "Fallback" /\ result' = "none"
       ELSE pc' = "Done" /\ result' = "nil"
    /\ UNCHANGED <<X, workersOverride, headResp, testResp, size, workers, launched,
                   tasks, wg, fileExists, file, creates, gets, fpos, bar, err,
                   written, server>>

\* downloadFile, lines 183-184: wg.Wait() returns, return nil
Wait ==
    /\ pc = "Wait"
    /\ wg = 0
    /\ pc' = "Done"
    /\ result' = "nil"
    /\ UNCHANGED <<X, workersOverride, headResp, testResp, size, workers, launched,
                   tasks, wg, fileExists, file, creates, gets, fpos, bar, err,
                   written, server>>

\* singleDownload returning its first error without looking at io.Copy's
FallbackReturnIgnoresCopy(e) == IF e \in {"none", "copy"} THEN "nil" ELSE "err"

\* singleDownload's return value: the error of the step that failed
\* (return err at lines 240, 245, 250 and 265), nil without one
FallbackReturn(e) == IF e = "none" THEN "nil" ELSE "err"

\* singleDownload, lines 238-262: http.Get, the status check, os.Create
SingleDownload ==
    /\ pc = "Fallback"
    /\ gets' = gets + 1
    /\ \E r \in PartResponses, createErr \in BOOLEAN :
        LET e == IF r.err THEN "get"
                 ELSE IF r.status # StatusOK THEN "getStatus"
                 ELSE IF createErr THEN "sdCreate"
                 ELSE "none"
        IN /\ err' = e
           /\ IF e \in {"get", "getStatus"}
              THEN /\ pc' = "Done" /\ result' = FallbackReturn(e)
                   /\ UNCHANGED <<fileExists, file, creates, bar>>
              ELSE IF e = "sdCreate"
              THEN /\ pc' = "Done" /\ result' = FallbackReturn(e)
                   /\ creates' = creates + 1
                   /\ UNCHANGED <<fileExists, file, bar>>
              ELSE /\ pc' = "Copy" /\ result' = "none"
                   /\ creates' = creates + 1
                   /\ fileExists' = TRUE /\ file' = <<>>
                   /\ bar' = 0
    /\ fpos' = 0
    /\ UNCHANGED <<X, workersOverride, headResp, testResp, size, workers, launched,
                   tasks, wg, written, server>>

\* singleDownload, lines 264-265: one read and write of io.Copy
Copy ==
    /\ pc = "Copy"
    /\ LET rem == Len(X) - fpos
       IN \E n \in 0..Min(BufSize, rem), rerr \in {"nil", "EOF", "err"} :
          \E w \in 0..n :
            /\ rerr = "EOF" => n = rem
            /\ rerr = "nil" => n > 0
            /\ file' = IF w > 0 THEN WriteAt(file, fpos, SourceBytes(fpos, w)) ELSE file
            /\ bar' = bar + w
            /\ fpos' = fpos + w
            /\ IF w < n \/ rerr = "err"
               THEN pc' = "Done" /\ err' = "copy" /\ result' = FallbackReturn("copy")
               ELSE IF rerr = "EOF"
               THEN pc' = "Done" /\ err' = "none" /\ result' = FallbackReturn("none")
               ELSE pc' = "Copy" /\ err' = "none" /\ result' = "none"
    /\ UNCHANGED <<X, workersOverride, headResp, testResp, size, workers, launched,
                   tasks, wg, fileExists, creates, gets, written, server>>

PartRequest == \E i \in DOMAIN tasks : DownloadPartRequest(i)
PartRead == \E i \in DOMAIN tasks : DownloadPartRead(i)

Next ==
    \/ HeadProbe
    \/ Verify
    \/ CreateFile
    \/ LaunchTask
    \/ PartRequest
    \/ PartRead
    \/ Wait
    \/ SingleDownload
    \/ Copy

Spec == Init /\ [][Next]_vars

\* every call made by downloadFile, singleDownload and the chunk goroutines
\* returns, and the Go scheduler runs a goroutine that can run: a step is
\* taken whenever one stays possible
\* (runs with --worker unset, 1 or 2)
InitFair == Init /\ workersOverride \in {0, 1, 2}

FairSpec == InitFair /\ [][Next]_vars /\ WF_vars(Next)

(* ------------------ the planner on its own: SpecPlan ------------------- *)
\* The worker count and the launch loop of downloadFile (lines 124-181) for
\* sizes around the thresholds of calculateWorkers, taken as the size the
\* probe returned; the file and the transfers are left out.
PlanSizes ==
    (0..MaxSize) \cup {10 * MB}
    \cup {t + d : t \in {5 * MB, 100 * MB, 1 * GB}, d \in (0 - Radius)..Radius}

InitPlan ==
    /\ X = <<>>
    /\ workersOverride \in 0..MaxWorkers
    /\ pc = "Plan"
    /\ headResp = NoResp
    /\ testResp = NoResp
    /\ size \in PlanSizes
    /\ workers = 0
    /\ launched = 0
    /\ tasks = <<>>
    /\ wg = 0
    /\ fileExists = FALSE
    /\ file = <<>>
    /\ creates = 0
    /\ gets = 0
    /\ fpos = 0
    /\ bar = 0
    /\ result = "none"
    /\ err = "none"
    /\ written = {}
    /\ server = "strict"

\* downloadFile, lines 124-128 and 153-155: the worker count and wg.Add
PlanWorkers ==
    /\ pc = "Plan"
    /\ workers' = ResolveWorkers(size, workersOverride)
    /\ wg' = WgAdd(ResolveWorkers(size, workersOverride))
    /\ pc' = "Launch"
    /\ UNCHANGED <<X, workersOverride, headResp, testResp, size, launched, tasks,
                   fileExists, file, creates, gets, fpos, bar, result, err,
                   written, server>>

NextPlan ==
    \/ PlanWorkers
    \/ LaunchTask

SpecPlan == InitPlan /\ [][NextPlan]_vars

(* --------------- runs against a server loose on Content-Range ---------- *)
\* a run with --worker 1 or 2, no file at the output path, a resource of
\* MaxSize bytes, and a server whose 206 answers to the chunk requests may
\* carry any Content-Range
InitContentRange ==
    /\ X = [k \in 1..MaxSize |-> k]
    /\ workersOverride \in {1, 2}
    /\ pc = "Idle"
    /\ headResp = NoResp
    /\ testResp = NoResp
    /\ size = 0
    /\ workers = 0
    /\ launched = 0
    /\ tasks = <<>>
    /\ wg = 0
    /\ fileExists = FALSE
    /\ file = <<>>
    /\ creates = 0
    /\ gets = 0
    /\ fpos = 0
    /\ bar = 0
    /\ result = "none"
    /\ err = "none"
    /\ written = {}
    /\ server = "loose"

SpecContentRange == InitContentRange /\ [][Next]_vars

\* downloadCmd, lines 66-84: os.Exit(1) on an error, otherwise the process ends 0
ExitStatus == IF result = "err" THEN 1 ELSE 0

TypeOK ==
    /\ X \in Contents
    /\ pc \in {"Idle", "Verify", "Create", "Launch", "Wait", "Fallback", "Copy", "Done"}
    /\ result \in {"none", "nil", "err"}
    /\ wg \in 0..workers
    /\ wg = workers - Cardinality(Finished(tasks)) \/ pc \in {"Idle", "Verify", "Create", "Fallback", "Copy"} \/ tasks = <<>>
    /\ launched \in 0..workers

(* ------------------------- state predicates ---------------------------- *)
\* the ranged path was entered: the worker count was resolved (line 124)
RangedEntered == workers > 0

\* the run is over and went through the launch loop and wg.Wait
RangedDone == pc = "Done" /\ tasks # <<>>

\* the bytes of chunk t's range in the file are the source's
RangeHolds(t) ==
    \A b \in t.start..t.end : b + 1 \in DOMAIN file /\ file[b + 1] = X[b + 1]

\* the bytes of chunk t's range in the file are as file.Truncate left them
RangeZero(t) ==
    \A b \in t.start..t.end : b + 1 \in DOMAIN file /\ file[b + 1] = ZeroByte

\* the output path is as it was before the run
FileUntouched ==
    /\ creates = 0
    /\ file = IF fileExists THEN OldContent ELSE <<>>

\* the HEAD request was answered and passed every check on it
HeadPassed == pc # "Idle" /\ HeadOutcome(headResp) # "fail"

\* the server advertised range support in the HEAD response
Advertised == HeadPassed /\ headResp.acceptRanges = "bytes"

\* a failure at the probe stage: on the HEAD or on the test request
ProbeFailed ==
    \/ pc # "Idle" /\ headResp.err
    \/ pc # "Idle" /\ headResp.status # StatusOK
    \/ pc # "Idle" /\ headResp.contentLength \in {"missing", "invalid"}
    \/ testResp.err

(* ------------------------------ claims --------------------------------- *)

\* C1: after the join of the ranged transfer, downloadFile returns an error
\* (and the CLI exits non-zero) whenever some chunk exhausted its attempts,
\* and returns nil only if no chunk did.
C1_FailureReported ==
    RangedDone =>
        /\ (\E i \in DOMAIN tasks : tasks[i].st = "exhausted")
              => (result = "err" /\ ExitStatus # 0)
        /\ result = "nil" => \A i \in DOMAIN tasks : tasks[i].st = "ok"

\* C2: round trip under concurrency: when every chunk fetch of a ranged
\* transfer succeeded, the file after the join is byte-identical to the source,
\* whatever the order of the chunk goroutines' steps.
C2_RoundTrip ==
    (RangedDone /\ \A i \in DOMAIN tasks : tasks[i].st = "ok")
        => (fileExists /\ file = X)

C2_Witness ==
    /\ RangedDone
    /\ workers = 2
    /\ Len(X) = 3
    /\ \A i \in DOMAIN tasks : tasks[i].st = "ok"
    /\ \E i \in DOMAIN tasks : tasks[i].retries > 0
    /\ file = X

\* C3: the planned chunk ranges are contiguous and non-overlapping, ordered by
\* index, start at 0, end at size-1, and cover every byte of [0, size-1]
\* exactly once.
C3_PlanPartition ==
    /\ \A i \in DOMAIN tasks :
        /\ tasks[i].start = IF i = 0 THEN 0 ELSE tasks[i - 1].end + 1
        /\ tasks[i].end <= size - 1
    /\ (tasks # <<>> /\ launched = workers) =>
        /\ tasks[workers - 1].end = size - 1
        /\ \A b \in 0..(size - 1) :
             Cardinality({i \in DOMAIN tasks :
                             tasks[i].start <= b /\ b <= tasks[i].end}) = 1

C3_Witness ==
    /\ launched = workers
    /\ workers = 2
    /\ size = 3
    /\ tasks[0].end = 0
    /\ tasks[1].start = 1
    /\ tasks[1].end = 2

\* C4: no chunk's retry loop calls downloadPart more than maxRetries + 1 times.
C4_AttemptsBounded ==
    \A i \in DOMAIN tasks :
        /\ tasks[i].attempts <= maxRetries + 1
        /\ tasks[i].retries <= tasks[i].attempts

C4_Witness ==
    \E i \in DOMAIN tasks :
        /\ tasks[i].st = "exhausted"
        /\ tasks[i].attempts = maxRetries + 1
        /\ \E j \in DOMAIN tasks : j # i /\ tasks[j].st = "ok"

\* C5: a chunk whose fetch failed k <= maxRetries times and then succeeded is
\* never attempted again, and from its success on its byte range of the file
\* holds exactly the source bytes.
C5_SuccessAfterRetries ==
    /\ [](\A i \in DOMAIN tasks :
            tasks[i].st = "ok" => (tasks[i].retries <= maxRetries /\ RangeHolds(tasks[i])))
    /\ [][\A i \in DOMAIN tasks :
            tasks[i].st = "ok" => (i \in DOMAIN tasks' /\ tasks'[i] = tasks[i])]_vars

C5_Witness ==
    /\ RangedDone
    /\ \E i \in DOMAIN tasks :
        /\ tasks[i].st = "ok"
        /\ tasks[i].retries = maxRetries
        /\ tasks[i].attempts = maxRetries + 1
        /\ RangeLen(tasks[i]) >= 2
        /\ RangeHolds(tasks[i])

\* C6: after the transfer, a chunk that failed on all maxRetries + 1 attempts
\* has its byte range all zero, every chunk that succeeded holds its source
\* bytes, and downloadFile returned an error.
C6_ExhaustedLeftZero ==
    RangedDone =>
        \A i \in DOMAIN tasks :
            /\ tasks[i].st = "exhausted" => (RangeZero(tasks[i]) /\ result = "err")
            /\ tasks[i].st = "ok" => RangeHolds(tasks[i])

\* C7: sibling isolation: the step in which one chunk exhausts its attempts
\* changes nothing of any other chunk's goroutine, and at the join every chunk
\* has reached its own success or spent its own maxRetries + 1 attempts.
C7_SiblingIsolation ==
    /\ [](RangedDone =>
            \A j \in DOMAIN tasks :
                \/ tasks[j].st = "ok"
                \/ tasks[j].st = "exhausted" /\ tasks[j].attempts = maxRetries + 1)
    /\ [][\A i \in DOMAIN tasks :
            (tasks[i].st # "exhausted" /\ tasks'[i].st = "exhausted")
                => \A j \in DOMAIN tasks : j # i => tasks'[j] = tasks[j]]_vars

C7_Witness ==
    \E i \in DOMAIN tasks, j \in DOMAIN tasks :
        /\ i # j
        /\ tasks[i].st = "exhausted"
        /\ tasks[j].st = "reading"
        /\ tasks[j].attempts >= 2
        /\ tasks[j].pos > 0

\* C8: a server that advertises Accept-Ranges: bytes but answers the test
\* request with 200 gets no chunk task and no pre-sized file: the run makes
\* the one unranged GET, and when it returns nil the file is the source.
C8_AdvertisedBut200 ==
    (Advertised /\ ~testResp.err /\ testResp.status = StatusOK) =>
        /\ pc \in {"Fallback", "Copy", "Done"}
        /\ ~RangedEntered
        /\ tasks = <<>> /\ launched = 0
        /\ pc # "Fallback" => gets = 1
        /\ result = "nil" => (fileExists /\ file = X)

C8_Witness ==
    /\ Advertised
    /\ testResp.status = StatusOK
    /\ result = "nil"
    /\ gets = 1
    /\ Len(X) = 3
    /\ file = X

\* C9 (as stated): the ranged path is entered only if the server advertised
\* range support and answered the test request with 206 and a correct content
\* range; with a wrong or missing content range the run takes the fallback.
C9_RangedOnlyWithContentRange ==
    /\ RangedEntered =>
        (Advertised /\ testResp.status = StatusPartialContent
            /\ testResp.contentRange = "correct")
    /\ (Advertised /\ testResp.status # 0 /\ testResp.contentRange # "correct")
            => (~RangedEntered /\ pc \in {"Fallback", "Copy", "Done"})

\* C9 (amended): the ranged path is entered only if the server advertised
\* range support and answered the test request with status 206; an advertised
\* server answering any other status takes the fallback; the content range of
\* the answer is not looked at.
C9_RangedOnlyWithStatus ==
    /\ RangedEntered =>
        (Advertised /\ ~testResp.err /\ testResp.status = StatusPartialContent)
    /\ (Advertised /\ testResp.status # 0 /\ testResp.status # StatusPartialContent)
            => (~RangedEntered /\ pc \in {"Fallback", "Copy", "Done"})
    /\ gets > 0 => ~(Advertised /\ testResp.status = StatusPartialContent)

C9_Witness ==
    /\ RangedEntered
    /\ Advertised
    /\ testResp.status = StatusPartialContent
    /\ testResp.contentRange = "missing"
    /\ launched = workers

\* C10: a failure at the probe stage (transport error on the HEAD or on the
\* test request, a HEAD status other than 200, a missing or unparseable
\* Content-Length) ends the run with an error, the output file neither created
\* nor truncated, no chunk task launched and no unranged GET made.
C10_ProbeFailureAborts ==
    ProbeFailed =>
        /\ pc = "Done"
        /\ result = "err"
        /\ ExitStatus # 0
        /\ FileUntouched
        /\ tasks = <<>> /\ launched = 0 /\ ~RangedEntered
        /\ gets = 0

C10_Witness ==
    /\ pc = "Done"
    /\ headResp.status = StatusOK
    /\ headResp.contentLength = "missing"
    /\ headResp.acceptRanges = "none"
    /\ fileExists
    /\ result = "err"

\* the run took the single-stream fallback
FallbackEntered == pc \in {"Fallback", "Copy"} \/ gets > 0

\* an error inside singleDownload: on the GET, its status, os.Create or io.Copy
FallbackFailed == err \in {"get", "getStatus", "sdCreate", "copy"}

\* C11: the single-stream fallback issues one unranged GET and is never
\* retried: an error on the GET, its status, the file creation or the copy
\* ends the run at once with that error returned and a non-zero exit status.
C11_FallbackNoRetry ==
    /\ gets <= 1
    /\ pc = "Copy" => gets = 1
    /\ FallbackFailed =>
        /\ pc = "Done"
        /\ gets = 1
        /\ result = "err"
        /\ ExitStatus # 0
    /\ (pc = "Done" /\ gets = 1 /\ result = "nil") => (fpos = Len(X) /\ file = X)

C11_Witness ==
    /\ pc = "Done"
    /\ err = "copy"
    /\ gets = 1
    /\ fpos > 0
    /\ fpos < Len(X)
    /\ result = "err"

\* C12: calculateWorkers gives 1 below 5 MB, 4 from 5 MB to below 100 MB, 8
\* from 100 MB to below 1 GB and 16 from 1 GB on (in bytes: 5242880, 104857600,
\* 1073741824), exactly at the boundaries, and never decreases as the size grows.
C12_WorkerThresholds ==
    (pc # "Plan" /\ workersOverride = 0) =>
        /\ workers = CASE size < 5242880 -> 1
                       [] size >= 5242880 /\ size < 104857600 -> 4
                       [] size >= 104857600 /\ size < 1073741824 -> 8
                       [] OTHER -> 16
        /\ size = 5242879 => workers = 1
        /\ size = 5242880 => workers = 4
        /\ size = 104857600 => workers = 8
        /\ size = 1073741824 => workers = 16
        /\ \A sz \in PlanSizes : sz <= size => calculateWorkers(sz) <= workers

C12_Witness ==
    /\ pc = "Wait"
    /\ workersOverride = 0
    /\ size = 1073741824
    /\ workers = 16
    /\ launched = 16

\* C13: the resolved worker count is the --worker value whenever that value is
\* above 0, whatever the size, and calculateWorkers(size) when it is 0; it is
\* also the number of chunk goroutines launched.
C13_OverrideWins ==
    pc # "Plan" =>
        /\ workersOverride > 0 => workers = workersOverride
        /\ workersOverride = 0 => workers = calculateWorkers(size)
        /\ pc = "Wait" => (launched = workers /\ DOMAIN tasks = 0..(workers - 1))

C13_Witness ==
    /\ pc = "Wait"
    /\ workersOverride = 2
    /\ size >= 1073741824
    /\ workers = 2
    /\ DOMAIN tasks = {0, 1}

\* C14: for size 0 on the ranged path every planned chunk is zero-length and
\* is complete without a successful ranged fetch (it never ends by exhausting
\* its attempts), and the run returns nil with a zero-byte file.
C14_EmptyResource ==
    (RangedEntered /\ size = 0) =>
        /\ \A i \in DOMAIN tasks :
            /\ RangeLen(tasks[i]) = 0
            /\ tasks[i].st # "exhausted"
        /\ RangedDone => (result = "nil" /\ fileExists /\ file = <<>>)

\* C15: when 1 <= size < workers the plan has min(workers, size) ranges or a
\* single one, no planned range has its end below its start, and no ranged
\* request is made for an empty or inverted range.
C15_SmallSizePlan ==
    (RangedEntered /\ 1 <= size /\ size < workers) =>
        /\ \A i \in DOMAIN tasks :
            /\ tasks[i].end >= tasks[i].start
            /\ tasks[i].attempts > 0 => RangeLen(tasks[i]) > 0
        /\ (pc = "Wait" \/ RangedDone) =>
            Cardinality(DOMAIN tasks) \in {1, Min(workers, size)}

\* C16: every byte a chunk attempt writes lands at start + (bytes the attempt
\* has already written), inside the chunk's own [start, end], where it is the
\* source byte of that offset; no offset of the file is ever written by two
\* different chunk goroutines.
C16_WritesInOwnRange ==
    /\ [](\A p \in written :
            /\ p[2] \in DOMAIN tasks
            /\ tasks[p[2]].start <= p[1] /\ p[1] <= tasks[p[2]].end
            /\ p[1] + 1 \in DOMAIN file /\ file[p[1] + 1] = X[p[1] + 1]
            /\ \A q \in written : q[1] = p[1] => q[2] = p[2])
    /\ [][\A p \in written' \ written :
            /\ p[1] >= tasks[p[2]].start + tasks[p[2]].pos
            /\ p[1] < tasks[p[2]].start + tasks[p[2]].pos + BufSize
            /\ tasks[p[2]].st = "reading"]_vars

C16_Witness ==
    /\ workers = 2
    /\ \E p \in written, q \in written : p[2] = 0 /\ q[2] = 1
    /\ tasks[0].retries > 0
    /\ tasks[0].st = "reading" /\ tasks[0].pos > 0
    /\ tasks[1].st = "reading" /\ tasks[1].pos > 0

\* C17: on the ranged path the output file is created and pre-sized to size
\* before any chunk goroutine is launched, so every chunk write goes to an
\* existing file of length size; when os.Create or file.Truncate fails the run
\* returns the error with no goroutine launched.
C17_PreSizedBeforeLaunch ==
    /\ (pc = "Launch" \/ launched > 0 \/ tasks # <<>> \/ written # {}) =>
        /\ fileExists
        /\ creates = 1
        /\ Len(file) = size
    /\ err \in {"create", "truncate"} =>
        /\ pc = "Done"
        /\ result = "err"
        /\ launched = 0 /\ tasks = <<>> /\ written = {}

C17_Witness ==
    /\ pc = "Wait"
    /\ size = 3
    /\ workers = 2
    /\ Len(file) = 3
    /\ \E p \in written : p[2] = 1
    /\ file[1] = ZeroByte
    /\ file[3] = X[3]

\* C18: downloadFile returns from the ranged path only after every launched
\* chunk goroutine has reached success or exhaustion, and each goroutine
\* signals the join exactly once: the WaitGroup counter is the number of
\* goroutines of the plan that have not returned.
C18_JoinWaitsForAll ==
    /\ RangedDone =>
        /\ launched = workers
        /\ DOMAIN tasks = 0..(workers - 1)
        /\ \A i \in DOMAIN tasks : tasks[i].st \in {"ok", "exhausted"}
        /\ wg = 0
        /\ result = "nil"
    /\ (pc \in {"Launch", "Wait"} \/ RangedDone) =>
        wg = workers - Cardinality(Finished(tasks))

C18_Witness ==
    /\ pc = "Wait"
    /\ workers = 2
    /\ wg = 1
    /\ tasks[0].st = "exhausted"
    /\ tasks[1].st = "reading"

\* the steps of downloadFile in the order of its code: the probe (HEAD, then
\* the test request), then the ranged path (create, launch, join) or the
\* fallback path (GET, copy), each ending at a return
PathOrder ==
    {<<"Idle", "Verify">>, <<"Idle", "Fallback">>, <<"Idle", "Done">>,
     <<"Verify", "Create">>, <<"Verify", "Fallback">>, <<"Verify", "Done">>,
     <<"Create", "Launch">>, <<"Create", "Done">>,
     <<"Launch", "Wait">>, <<"Wait", "Done">>,
     <<"Fallback", "Copy">>, <<"Fallback", "Done">>, <<"Copy", "Done">>}

\* downloadFile has returned: nil (Completed) or an error (Failed)
Terminal == pc = "Done" /\ result \in {"nil", "err"}

\* C19: when every call returns, every run of downloadFile reaches a return,
\* with nil or with an error, through the probe and then the ranged path or
\* the fallback path; the states where no step is possible are exactly these
\* returns, so no run stays at wg.Wait() for ever.
C19_Terminates ==
    /\ <>Terminal
    /\ [](Terminal <=> ~ ENABLED Next)
    /\ [][pc' # pc => <<pc, pc'>> \in PathOrder]_vars

C19_Witness ==
    /\ Terminal
    /\ RangedDone
    /\ workers = 2
    /\ wg = 0
    /\ tasks[0].st = "ok"
    /\ tasks[1].st = "exhausted"

\* goroutine i is past the status check of downloadPart: its attempt was
\* accepted and is reading the body, or has returned nil
Accepted(i) == tasks[i].st \in {"reading", "ok"}

\* C20 (as stated): a chunk attempt is accepted only when the response is 206
\* and the total of its Content-Range, when the header is present, agrees
\* with the probed size; a 206 with another total is not accepted.
C20_AcceptedOnlyWithMatchingTotal ==
    \A i \in DOMAIN tasks :
        Accepted(i) =>
            /\ tasks[i].resp.status = StatusPartialContent
            /\ tasks[i].resp.contentRange # "wrong"

\* C20 (amended): a chunk attempt is accepted only when the request returned
\* without transport error and the response is status 206; the Content-Range
\* of the response is not looked at, so a 206 with another total, or with no
\* Content-Range, is accepted and its body written.
C20_AcceptedOnlyWithStatus ==
    \A i \in DOMAIN tasks :
        /\ Accepted(i) =>
            /\ ~tasks[i].resp.err
            /\ tasks[i].resp.status = StatusPartialContent
        /\ ~Accepted(i) => tasks[i].resp = NoResp

C20_Witness ==
    \E i \in DOMAIN tasks :
        /\ tasks[i].st = "ok"
        /\ tasks[i].resp.status = StatusPartialContent
        /\ tasks[i].resp.contentRange = "wrong"
        /\ tasks[i].retries > 0
        /\ RangeHolds(tasks[i])

\* C21: with base = size / workers (integer division), chunk i below
\* workers-1 is [i*base, (i+1)*base - 1] and the last chunk is
\* [(workers-1)*base, size-1]; 10485760 bytes with 4 workers are planned as
\* [0,2621439], [2621440,5242879], [5242880,7864319], [7864320,10485759].
C21_PlanFormula ==
    /\ \A i \in DOMAIN tasks :
        LET base == size \div workers
        IN /\ i < workers - 1 =>
                /\ tasks[i].start = i * base
                /\ tasks[i].end = (i + 1) * base - 1
           /\ i = workers - 1 =>
                /\ tasks[i].start = (workers - 1) * base
                /\ tasks[i].end = size - 1
    /\ (size = 10485760 /\ workers = 4 /\ launched = 4) =>
        /\ <<tasks[0].start, tasks[0].end>> = <<0, 2621439>>
        /\ <<tasks[1].start, tasks[1].end>> = <<2621440, 5242879>>
        /\ <<tasks[2].start, tasks[2].end>> = <<5242880, 7864319>>
        /\ <<tasks[3].start, tasks[3].end>> = <<7864320, 10485759>>

C21_Witness ==
    /\ pc = "Wait"
    /\ size = 10485760
    /\ workers = 4
    /\ DOMAIN tasks = 0..3
    /\ tasks[3].end = 10485759

\* a chunk request answered with status s and no transport error
Answer(s) == [NoResp EXCEPT !.status = s]

\* C22: a chunk attempt answered with a status other than 206 (200 included)
\* fails whether or not the file could be opened: the step changes neither the
\* file nor the progress count, writes nothing, and the retry loop counts one
\* more failed attempt (retries + 1, then "ready" again or "exhausted").
C22_RefusedStatusFailsAttempt ==
    [][\A i \in DOMAIN tasks :
        (tasks[i].st = "ready" /\ tasks'[i].attempts # tasks[i].attempts) =>
            \A fileErr \in BOOLEAN, s \in Statuses \ {StatusPartialContent} :
                DownloadPartAnswered(i, Answer(s), fileErr) =>
                    /\ file' = file /\ fileExists' = fileExists /\ creates' = creates
                    /\ written' = written
                    /\ bar' = bar
                    /\ tasks'[i].attempts = tasks[i].attempts + 1
                    /\ tasks'[i].retries = tasks[i].retries + 1
                    /\ tasks'[i].st = IF tasks[i].retries + 1 > maxRetries
                                      THEN "exhausted" ELSE "ready"
                    /\ tasks'[i].start = tasks[i].start
                    /\ tasks'[i].end = tasks[i].end
                    /\ \A j \in DOMAIN tasks : j # i => tasks'[j] = tasks[j]]_vars

C22_Witness ==
    /\ size = 3
    /\ workers = 2
    /\ pc = "Wait"
    /\ file = Zeros(size) /\ written = {} /\ bar = 0
    /\ tasks[0].st = "ready"
    /\ tasks[0].attempts = 2 /\ tasks[0].retries = 2
    /\ tasks[1].st = "exhausted"
    /\ ENABLED DownloadPartAnswered(0, Answer(StatusOK), FALSE)

\* C23: the range of a chunk is the one planned at its launch for as long as
\* its goroutine lives; every call of downloadPart, first or retry, asks for
\* that range and begins to write at its start, whatever a failed attempt
\* has written.
C23_RetrySameRange ==
    /\ [](\A i \in DOMAIN tasks :
            /\ tasks[i].start = ChunkStart(i, PartSize(size, workers))
            /\ tasks[i].end = ChunkEnd(i, PartSize(size, workers), size, workers)
            /\ tasks[i].st = "ready" => tasks[i].pos = 0)
    /\ [][\A i \in DOMAIN tasks :
            /\ i \in DOMAIN tasks'
            /\ tasks'[i].start = tasks[i].start
            /\ tasks'[i].end = tasks[i].end
            /\ (tasks[i].st = "ready" /\ tasks'[i].st = "reading") =>
                    WriteOffset(tasks'[i].start, tasks'[i].pos) = tasks[i].start]_vars

C23_Witness ==
    /\ pc = "Wait"
    /\ size = 3
    /\ workers = 2
    /\ tasks[1].retries = 2
    /\ tasks[1].st = "reading"
    /\ tasks[1].pos = 0
    /\ <<tasks[1].start, tasks[1].end>> = <<1, 2>>
    /\ {<<1, 1>>, <<2, 1>>} \subseteq written

\* C24: from pre-sizing on, and at the return of the ranged path whether
\* every chunk succeeded or some chunk is exhausted, the output file exists
\* and is exactly size bytes long: no write of a chunk goroutine ends beyond
\* size, and no step removes or shortens the file.
C24_FileLengthKept ==
    (pc \in {"Launch", "Wait"} \/ RangedDone) =>
        /\ fileExists
        /\ Len(file) = size
        /\ creates = 1
        /\ \A p \in written : p[1] >= 0 /\ p[1] < size

C24_Witness ==
    /\ RangedDone
    /\ size = 3
    /\ workers = 2
    /\ tasks[0].st = "exhausted"
    /\ tasks[1].st = "ok"
    /\ fileExists
    /\ Len(file) = 3
    /\ <<2, 1>> \in written

\* C25 (as stated): on the ranged path the byte count the chunk goroutines
\* have added to the progress bar never exceeds size, failed and retried
\* attempts included, and is size at the return when every chunk succeeded.
C25_ProgressBounded ==
    (pc \in {"Launch", "Wait"} \/ RangedDone) =>
        /\ bar <= size
        /\ (RangedDone /\ \A i \in DOMAIN tasks : tasks[i].st = "ok") => bar = size

\* C26: a run of downloadFile takes the ranged path or the fallback, never
\* both: once a chunk goroutine is launched no unranged GET is made, whatever
\* the chunks are answered and also when they are exhausted; a run that
\* entered the fallback resolves no worker count, launches no chunk goroutine
\* and never truncates the file to size (the file holds what io.Copy wrote).
C26_PathsExclusive ==
    /\ (launched > 0 \/ tasks # <<>> \/ workers > 0) =>
        /\ gets = 0
        /\ fpos = 0
        /\ pc \notin {"Fallback", "Copy"}
    /\ FallbackEntered =>
        /\ workers = 0 /\ launched = 0 /\ tasks = <<>> /\ wg = 0
        /\ written = {}
        /\ pc \notin {"Create", "Launch", "Wait"}
        /\ creates <= 1
        /\ (creates = 1 /\ err # "sdCreate") => file = SubSeq(X, 1, fpos)

C26_Witness ==
    /\ RangedDone
    /\ size = 3
    /\ workers = 2
    /\ \A i \in DOMAIN tasks :
        tasks[i].st = "exhausted" /\ tasks[i].attempts = maxRetries + 1
    /\ bar = 0
    /\ file = Zeros(size)
    /\ gets = 0

====
